---- MODULE Spec2Model ----
(***************************************************************************)
(* Playback controller of Firere/CustomTween (src/src/index.ts).           *)
(*                                                                         *)
(* Time is counted in whole units of 0.1 s, so that the delay, the tick    *)
(* deltas and tweenTime = time / precision are integers.  A progress value *)
(* in [0,1] handed to the easing function is represented by its numerator  *)
(* over the denominator `precision` (x = progress / precision is the       *)
(* integer `progress`, 1 - x is `precision - progress`).  The instance has *)
(* one numeric tweened property.                                           *)
(*                                                                         *)
(* The host is modelled by its three services: the Heartbeat signal (a     *)
(* pulse fires every connected callback with deltaTime), task.spawn /      *)
(* task.wait (a spawned Play task runs at once up to its wait; a waiting   *)
(* task is resumed by the first pulse at which its delay has elapsed, and  *)
(* a callback connected during a pulse is first fired by the next pulse),  *)
(* and TweenService (Create(...).Play() takes the property to the sample). *)
(***************************************************************************)
EXTENDS Integers, Sequences, FiniteSets

VARIABLES
    \* constructor arguments and the fields the constructor derives from them
    delay, precision, repeatCount, reverses, time, tweenTime,
    initial, targetProperties,
    \* fields of the CustomTween object that change during playback
    active, PlaybackState, progress, timeElapsed, reversing, repeatsRemaining,
    connection,
    \* host: the tweened property of this.Instance, the Heartbeat connections
    \* that are still connected but no longer referenced by this.connection,
    \* and the Play tasks suspended in task.wait (time waited so far)
    Instance, leaked, waiting,
    \* history: samples handed to TweenService.Create, completed pass-pairs,
    \* reverse passes begun, the last operation the owner or the host ran,
    \* pulses delivered, whether every pulse so far came 0.1 s after the one
    \* before it, and whether Cancel()
    \* has returned with no Play() call since
    samples, passPairs, reversals, op, ticks, steady, cancelled,
    \* history: the progress index at the last Pause() that took effect, while
    \* no sample has been emitted and no Cancel() called since (-1 otherwise);
    \* whether Cancel() has run with no sample emitted since; and the number
    \* of samples the last pulse emitted after a handler of the owner ran
    \* between two iterations of its sample loop
    pausedAt, afterCancel, lateSamples

config == <<delay, precision, repeatCount, reverses, time, tweenTime,
            initial, targetProperties>>
fields == <<active, PlaybackState, progress, timeElapsed, reversing,
            repeatsRemaining, connection>>
host == <<Instance, leaked, waiting>>
history == <<samples, passPairs, reversals, op, ticks, steady, cancelled,
             pausedAt, afterCancel, lateSamples>>
vars == <<config, fields, host, history>>

\* ------------------------------------------------------------------ bounds
MaxPrecision == 2
RunPrecision == 10
MaxDelay == 2
RunDelay == 5
MaxRepeat == 1
ValueStep == 10
MaxDelta == 2
MaxTicks == 4
MaxWaits == 2
RunTicks == 12

\* A pulse with no time passed, a 0.1 s frame, and a stall.
Deltas == {0, 1, MaxDelta}
PlaybackStates == {"Begin", "Delayed", "Playing", "Paused", "Completed", "Cancelled"}

\* ------------------------------------------------------- the object's state
\* Everything a method or the Heartbeat callback can change, as one record.
World ==
    [active |-> active, PlaybackState |-> PlaybackState, progress |-> progress,
     timeElapsed |-> timeElapsed, reversing |-> reversing,
     repeatsRemaining |-> repeatsRemaining, connection |-> connection,
     Instance |-> Instance, leaked |-> leaked, waiting |-> waiting,
     samples |-> samples, passPairs |-> passPairs, reversals |-> reversals]

Becomes(w) ==
    /\ active' = w.active
    /\ PlaybackState' = w.PlaybackState
    /\ progress' = w.progress
    /\ timeElapsed' = w.timeElapsed
    /\ reversing' = w.reversing
    /\ repeatsRemaining' = w.repeatsRemaining
    /\ connection' = w.connection
    /\ Instance' = w.Instance
    /\ leaked' = w.leaked
    /\ waiting' = w.waiting
    /\ samples' = w.samples
    /\ passPairs' = w.passPairs
    /\ reversals' = w.reversals

\* --------------------------------------------------------------- constructor
\* A constructor whose counter starts at 0 instead of 1.
InitialRepeatsFromZero(rc) == IF rc < 0 THEN -1 ELSE rc

\* this.repeatsRemaining = 1; this.repeatsRemaining += repeatCount < 0 ? -1 : repeatCount
InitialRepeats(rc) == 1 + (IF rc < 0 THEN -1 ELSE rc)

Constructed(precisions, delays, initials) ==
    /\ precision \in precisions
    /\ time \in {precision, 2 * precision}
    /\ tweenTime = time \div precision
    /\ delay \in delays
    /\ repeatCount \in -1 .. MaxRepeat
    /\ reverses \in BOOLEAN
    /\ initial \in initials
    /\ targetProperties = initial + ValueStep * precision
    /\ Instance = initial
    /\ active = TRUE
    /\ PlaybackState = "Begin"
    /\ progress = 0
    /\ timeElapsed = 0
    /\ reversing = FALSE
    /\ repeatsRemaining = InitialRepeats(repeatCount)
    /\ connection = "none"
    /\ leaked = 0
    /\ waiting = << >>
    /\ samples = << >>
    /\ passPairs = 0
    /\ reversals = 0
    /\ op = "new"
    /\ ticks = 0
    /\ steady = TRUE
    /\ cancelled = FALSE
    /\ pausedAt = -1
    /\ afterCancel = FALSE
    /\ lateSamples = 0

Init == Constructed({1, MaxPrecision}, {0, MaxDelay}, {1})

\* ------------------------------------------------------------------ helpers
\* RunService.Heartbeat.Connect(...) assigned to this.connection: the connection
\* the field referenced before stays connected if nothing disconnected it.
Connect(w) ==
    [w EXCEPT !.connection = "connected",
              !.leaked = IF w.connection = "connected" THEN @ + 1 ELSE @]

\* this.connection?.Disconnect()
Disconnect(w) ==
    [w EXCEPT !.connection = IF @ = "none" THEN "none" ELSE "disconnected"]

\* The easing function of the tween info; the identity of the spec's scenario.
easing(x) == x

\* getCurrentProperties for the numeric property: lerp(a, b) = a + progress * (b - a),
\* with progress = p / precision.
getCurrentProperties(p) ==
    initial + (p * (targetProperties - initial)) \div precision

\* ----------------------------------------------------------------- Play()
\* The rest of the spawned task after the wait: Playing, and the subscription.
Resume(w) == [Connect(w) EXCEPT !.PlaybackState = "Playing"]

\* A task that waits without recording the Delayed state.
PlayTaskKeepsState(w) ==
    IF delay > 0
    THEN [w EXCEPT !.waiting = Append(@, 0)]
    ELSE Resume(w)

\* The task Play() spawns, run up to its first yield.
PlayTask(w) ==
    IF delay > 0
    THEN [w EXCEPT !.PlaybackState = "Delayed", !.waiting = Append(@, 0)]
    ELSE Resume(w)

\* A Play() whose re-entrancy guard tests Playing only.
PlayGuardsPlayingOnly(w) ==
    IF ~w.active THEN w
    ELSE IF w.PlaybackState = "Playing" THEN w
    ELSE PlayTask(w)

Play(w) ==
    IF ~w.active THEN w
    ELSE IF w.PlaybackState = "Playing" \/ w.PlaybackState = "Delayed" THEN w
    ELSE PlayTask(w)

\* ------------------------------------------------------ Heartbeat callback
\* One iteration of the sample loop's body.
Emit(w) ==
    LET x == IF w.reversing THEN precision - w.progress ELSE w.progress
        v == getCurrentProperties(easing(x))
    IN  [w EXCEPT !.timeElapsed = @ - tweenTime,
                  !.samples = Append(@, [x |-> easing(x), v |-> v,
                                         k |-> w.progress, rev |-> w.reversing,
                                         st |-> w.PlaybackState,
                                         act |-> w.active]),
                  !.Instance = v,
                  !.progress = @ + 1]

\* A sample loop that drains the backlog without looking at the state.
RECURSIVE SampleLoopDrainsBacklog(_)
SampleLoopDrainsBacklog(w) ==
    IF w.timeElapsed >= tweenTime
    THEN SampleLoopDrainsBacklog(Emit(w))
    ELSE w

RECURSIVE SampleLoop(_)
SampleLoop(w) ==
    IF w.timeElapsed >= tweenTime
    THEN IF w.PlaybackState # "Playing" \/ ~w.active THEN w
         ELSE SampleLoop(Emit(w))
    ELSE w

\* A completion that decrements the counter only while it is positive.
CompletionDecrementsPositive(w) ==
    LET c == [Disconnect(w) EXCEPT
                 !.PlaybackState = "Completed",
                 !.progress = 0,
                 !.repeatsRemaining = IF @ > 0 THEN @ - 1 ELSE @,
                 !.reversing = FALSE,
                 !.passPairs = @ + 1]
    IN  IF c.repeatsRemaining # 0 THEN Play(c) ELSE c

\* The else branch of the progress > precision test: the pass-pair is over.
Completion(w) ==
    LET c == [Disconnect(w) EXCEPT
                 !.PlaybackState = "Completed",
                 !.progress = 0,
                 !.repeatsRemaining = IF @ >= 0 THEN @ - 1 ELSE @,
                 !.reversing = FALSE,
                 !.passPairs = @ + 1]
    IN  IF c.repeatsRemaining # 0 THEN Play(c) ELSE c

PassEnd(w) ==
    IF w.progress > precision
    THEN IF reverses /\ ~w.reversing
         THEN [w EXCEPT !.progress = 0, !.reversing = TRUE, !.reversals = @ + 1]
         ELSE Completion(w)
    ELSE w

\* A callback without the guard on this.active.
HeartbeatIgnoresActive(w, deltaTime) ==
    SampleLoop(PassEnd([w EXCEPT !.timeElapsed = @ + deltaTime]))

Heartbeat(w, deltaTime) ==
    IF ~w.active THEN w
    ELSE SampleLoop(PassEnd([w EXCEPT !.timeElapsed = @ + deltaTime]))

\* ------------------------------------------------- Cancel, Destroy, Pause
\* A Cancel() that leaves the instance's properties where the tween took them.
CancelKeepsProperties(w) ==
    LET c == IF w.PlaybackState = "Begin"
             THEN [w EXCEPT !.PlaybackState = "Cancelled"] ELSE w
    IN  [Disconnect(c) EXCEPT !.progress = 0, !.timeElapsed = 0]

Cancel(w) ==
    LET c == IF w.PlaybackState = "Begin"
             THEN [w EXCEPT !.PlaybackState = "Cancelled"] ELSE w
    IN  [Disconnect(c) EXCEPT !.progress = 0, !.timeElapsed = 0,
                              !.Instance = initial]

Destroy(w) == [Disconnect(w) EXCEPT !.active = FALSE]

\* A Pause() that also rewinds the pass.
PauseRewinds(w) ==
    IF w.PlaybackState \in {"Begin", "Cancelled", "Completed", "Delayed"} THEN w
    ELSE [Disconnect(w) EXCEPT !.PlaybackState = "Paused", !.timeElapsed = 0,
                               !.progress = 0]

\* A Pause() whose early return does not list Delayed.
PauseInterruptsDelay(w) ==
    IF w.PlaybackState \in {"Begin", "Cancelled", "Completed"} THEN w
    ELSE [Disconnect(w) EXCEPT !.PlaybackState = "Paused", !.timeElapsed = 0]

Pause(w) ==
    IF w.PlaybackState \in {"Begin", "Cancelled", "Completed", "Delayed"} THEN w
    ELSE [Disconnect(w) EXCEPT !.PlaybackState = "Paused", !.timeElapsed = 0]

\* --------------------------------- a handler run between two loop iterations
\* TweenService.Create(...).Play() can run code of the owner (a listener on
\* the instance) before the loop's next iteration: here that code calls one
\* method of the controller, after the n-th sample of the pulse.
Handlers == {"Pause", "Cancel", "Destroy"}

Handler(h, w) ==
    CASE h = "Pause" -> Pause(w)
      [] h = "Cancel" -> Cancel(w)
      [] h = "Destroy" -> Destroy(w)

\* The sample loop with the handler run after its n-th sample: the state it
\* ends in, whether the handler ran, and the samples emitted after it.
RECURSIVE SampleLoopInterrupted(_, _, _)
SampleLoopInterrupted(w, n, h) ==
    IF w.timeElapsed >= tweenTime /\ w.PlaybackState = "Playing" /\ w.active
    THEN IF n = 1
         THEN LET handled == Handler(h, Emit(w))
                  done == SampleLoop(handled)
              IN  [w |-> done, ran |-> TRUE,
                   late |-> Len(done.samples) - Len(handled.samples)]
         ELSE SampleLoopInterrupted(Emit(w), n - 1, h)
    ELSE [w |-> w, ran |-> FALSE, late |-> 0]

HeartbeatInterrupted(w, deltaTime, n, h) ==
    IF ~w.active THEN [w |-> w, ran |-> FALSE, late |-> 0]
    ELSE SampleLoopInterrupted(PassEnd([w EXCEPT !.timeElapsed = @ + deltaTime]),
                               n, h)

\* ------------------------------------------------------------------- host
\* The callbacks connected when the pulse starts, fired one after the other.
RECURSIVE Fire(_, _, _)
Fire(w, n, deltaTime) ==
    IF n = 0 THEN w ELSE Fire(Heartbeat(w, deltaTime), n - 1, deltaTime)

\* The first n waiting tasks have waited deltaTime longer; those whose delay
\* has elapsed run the rest of their Play task.
RECURSIVE Wake(_, _, _, _)
Wake(w, pending, n, deltaTime) ==
    IF pending = << >> THEN w
    ELSE LET waited == IF n > 0 THEN Head(pending) + deltaTime ELSE Head(pending)
             rest == Wake(w, Tail(pending), IF n > 0 THEN n - 1 ELSE 0, deltaTime)
         IN  IF waited >= delay
             THEN Resume(rest)
             ELSE [rest EXCEPT !.waiting = <<waited>> \o @]

HeartbeatPulse(w, deltaTime) ==
    LET n == (IF w.connection = "connected" THEN 1 ELSE 0) + w.leaked
        fired == Fire(w, n, deltaTime)
    IN  Wake([fired EXCEPT !.waiting = << >>], fired.waiting,
             Len(w.waiting), deltaTime)

\* ---------------------------------------------------------------- actions
DoPlay ==
    /\ Becomes(Play(World))
    /\ op' = "Play"
    /\ cancelled' = FALSE
    /\ UNCHANGED <<config, ticks, steady, pausedAt, afterCancel, lateSamples>>

DoPause ==
    /\ Becomes(Pause(World))
    /\ op' = "Pause"
    /\ pausedAt' = IF PlaybackState' = "Paused" /\ PlaybackState # "Paused"
                   THEN progress ELSE pausedAt
    /\ UNCHANGED <<config, ticks, steady, cancelled, afterCancel, lateSamples>>

DoCancel ==
    /\ Becomes(Cancel(World))
    /\ op' = "Cancel"
    /\ cancelled' = TRUE
    /\ pausedAt' = -1
    /\ afterCancel' = TRUE
    /\ UNCHANGED <<config, ticks, steady, lateSamples>>

DoDestroy ==
    /\ Becomes(Destroy(World))
    /\ op' = "Destroy"
    /\ UNCHANGED <<config, ticks, steady, cancelled, pausedAt, afterCancel,
                   lateSamples>>

Pulse(deltaTime) ==
    /\ Becomes(HeartbeatPulse(World, deltaTime))
    /\ op' = "Heartbeat"
    /\ ticks' = ticks + 1
    /\ steady' = (steady /\ deltaTime = 1)
    /\ pausedAt' = IF samples' # samples THEN -1 ELSE pausedAt
    /\ afterCancel' = (afterCancel /\ samples' = samples)
    /\ lateSamples' = 0
    /\ UNCHANGED <<config, cancelled>>

Tick == \E deltaTime \in Deltas : ticks < MaxTicks /\ Pulse(deltaTime)

\* A pulse whose one connected callback is interrupted by a handler.
InterruptedPulse(deltaTime, n, h) ==
    LET r == HeartbeatInterrupted(World, deltaTime, n, h)
    IN  /\ connection = "connected"
        /\ leaked = 0
        /\ r.ran
        /\ Becomes(Wake([r.w EXCEPT !.waiting = << >>], r.w.waiting,
                        Len(waiting), deltaTime))
        /\ op' = h \o "InTick"
        /\ ticks' = ticks + 1
        /\ steady' = (steady /\ deltaTime = 1)
        /\ cancelled' = (cancelled \/ h = "Cancel")
        /\ pausedAt' = IF h = "Pause" /\ r.late = 0 THEN r.w.progress ELSE -1
        /\ afterCancel' = (h = "Cancel" /\ r.late = 0)
        /\ lateSamples' = r.late
        /\ UNCHANGED config

TickInterrupted ==
    \E deltaTime \in Deltas, n \in 1 .. MaxDelta, h \in Handlers :
        ticks < MaxTicks /\ InterruptedPulse(deltaTime, n, h)

Next == DoPlay \/ DoPause \/ DoCancel \/ DoDestroy \/ Tick \/ TickInterrupted

Spec == Init /\ [][Next]_vars

\* One Play() and then only the clock: no Pause, Cancel or Destroy.
InitRun ==
    Constructed((1 .. MaxPrecision) \cup {RunPrecision}, {0, RunDelay}, {0})

PlayOnce == op = "new" /\ DoPlay

RunTick == \E deltaTime \in Deltas :
    op # "new" /\ ticks < RunTicks /\ Pulse(deltaTime)

NextRun == PlayOnce \/ RunTick

SpecRun == InitRun /\ [][NextRun]_vars

\* ------------------------------------------------------------- BezierTween
\* The earlier controller of the repository, with the same fields under other
\* names: `total` is held in timeElapsed and `end` in targetProperties.  It has
\* no active flag, no reverse pass and no repeats, so active, reversing and
\* repeatsRemaining keep their initial values.  The task Play() spawns is the
\* same text as CustomTween's (PlayTask, Resume).
bezier(x) == x

BezierEmit(w) ==
    LET v == getCurrentProperties(bezier(w.progress))
    IN  [w EXCEPT !.timeElapsed = @ - tweenTime,
                  !.samples = Append(@, [x |-> bezier(w.progress), v |-> v,
                                         k |-> w.progress, rev |-> FALSE,
                                         st |-> w.PlaybackState,
                                         act |-> w.active]),
                  !.Instance = v,
                  !.progress = @ + 1]

RECURSIVE BezierSampleLoop(_)
BezierSampleLoop(w) ==
    IF w.timeElapsed >= tweenTime THEN BezierSampleLoop(BezierEmit(w)) ELSE w

BezierHeartbeat(w, deltaTime) ==
    LET a == [w EXCEPT !.timeElapsed = @ + deltaTime]
    IN  IF a.progress > precision
        THEN [a EXCEPT !.PlaybackState = "Completed"]
        ELSE BezierSampleLoop(a)

BezierPlay(w) ==
    IF w.PlaybackState = "Playing" \/ w.PlaybackState = "Delayed" THEN w
    ELSE PlayTask(w)

BezierCancel(w) ==
    [Disconnect(w) EXCEPT !.PlaybackState = "Cancelled", !.progress = 0,
                          !.timeElapsed = 0, !.Instance = initial]

BezierPause(w) ==
    IF w.PlaybackState \in {"Begin", "Cancelled", "Completed", "Delayed"} THEN w
    ELSE [Disconnect(w) EXCEPT !.PlaybackState = "Paused", !.timeElapsed = 0]

RECURSIVE BezierFire(_, _, _)
BezierFire(w, n, deltaTime) ==
    IF n = 0 THEN w
    ELSE BezierFire(BezierHeartbeat(w, deltaTime), n - 1, deltaTime)

BezierPulse(w, deltaTime) ==
    LET n == (IF w.connection = "connected" THEN 1 ELSE 0) + w.leaked
        fired == BezierFire(w, n, deltaTime)
    IN  Wake([fired EXCEPT !.waiting = << >>], fired.waiting,
             Len(w.waiting), deltaTime)

BezierUntracked == <<config, steady, cancelled, pausedAt, afterCancel, lateSamples>>

BezierDoPlay ==
    /\ Len(waiting) < MaxWaits
    /\ Becomes(BezierPlay(World))
    /\ op' = "Play"
    /\ UNCHANGED <<BezierUntracked, ticks>>

BezierDoPause ==
    /\ Becomes(BezierPause(World))
    /\ op' = "Pause"
    /\ UNCHANGED <<BezierUntracked, ticks>>

BezierDoCancel ==
    /\ Becomes(BezierCancel(World))
    /\ op' = "Cancel"
    /\ UNCHANGED <<BezierUntracked, ticks>>

BezierTick == \E deltaTime \in Deltas :
    /\ ticks < MaxTicks
    /\ Becomes(BezierPulse(World, deltaTime))
    /\ op' = "Heartbeat"
    /\ ticks' = ticks + 1
    /\ UNCHANGED BezierUntracked

InitBezier ==
    /\ Constructed(1 .. MaxPrecision, {0, MaxDelay}, {0})
    /\ repeatCount = 0
    /\ ~reverses

NextBezier == BezierDoPlay \/ BezierDoPause \/ BezierDoCancel \/ BezierTick

SpecBezier == InitBezier /\ [][NextBezier]_vars

\* ------------------------------------------------------------ the claims
Last(q) == q[Len(q)]

Values(q) == [i \in 1 .. Len(q) |-> q[i].v]

\* C1: a forward-only pass (reverses = false, repeatCount = 0) has emitted
\* exactly `precision` samples when PlaybackState becomes Completed, whatever
\* the tick deltas were.
C1_ExactlyPrecisionSamples ==
    (~reverses /\ repeatCount = 0 /\ PlaybackState = "Completed")
        => Len(samples) = precision

\* C2: time 1.0 s, precision 10, identity easing, no delay, no reverse, no
\* repeat, one numeric property 0 -> 100: after Play() and exactly ten ticks
\* of 0.1 s the samples emitted are 10, 20, ..., 100 in that order and
\* PlaybackState is Completed.
C2_TenTicksScenario ==
    (/\ time = 10 /\ precision = 10 /\ delay = 0 /\ ~reverses /\ repeatCount = 0
     /\ initial = 0 /\ targetProperties = 100
     /\ steady /\ ticks = 10)
        => /\ Values(samples) = [i \in 1 .. 10 |-> 10 * i]
           /\ PlaybackState = "Completed"

\* C3: when Cancel() returns, in whatever state and at whatever progress it
\* was called, the tweened property has its construction-time value and
\* progress and timeElapsed are 0.
C3_CancelRestores ==
    op = "Cancel" => (Instance = initial /\ progress = 0 /\ timeElapsed = 0)

C3_Witness ==
    /\ op = "Cancel"
    /\ reversing
    /\ passPairs > 0
    /\ samples # << >>
    /\ Last(samples).rev
    /\ Last(samples).v # initial
    /\ Instance = initial

\* C4: when Cancel() returns, PlaybackState is Cancelled, whatever it was
\* before the call.
C4_CancelSetsCancelled ==
    op = "Cancel" => PlaybackState = "Cancelled"

\* C5: once Cancel() has returned and until Play() is called again, no clock
\* pulse emits a sample or changes PlaybackState.
C5_CancelledIsInert ==
    [][(cancelled /\ ticks' # ticks)
          => (samples' = samples /\ PlaybackState' = PlaybackState)]_vars

\* C6: a Play() call made while PlaybackState is Playing or Delayed changes
\* no field of the controller, starts no delay wait and creates no clock
\* subscription.
C6_PlayIsIdempotent ==
    [][(op' = "Play" /\ PlaybackState \in {"Playing", "Delayed"})
          => UNCHANGED <<fields, host, samples, passPairs, reversals>>]_vars

C6_Witness ==
    /\ op = "Play"
    /\ PlaybackState = "Delayed"
    /\ Len(waiting) = 1
    /\ waiting[1] > 0

C7_Accounting ==
    repeatCount >= 0 =>
        /\ repeatsRemaining + passPairs = repeatCount + 1
        /\ reversals = IF reverses
                       THEN passPairs + (IF reversing THEN 1 ELSE 0)
                       ELSE 0
        /\ PlaybackState = "Completed" =>
              /\ passPairs = repeatCount + 1
              /\ connection # "connected"
              /\ leaked = 0
              /\ waiting = << >>
        /\ passPairs = repeatCount + 1 => PlaybackState = "Completed"

\* C7: with repeatCount = N >= 0 and only Play() and ticks, repeatsRemaining
\* starts at N + 1 and drops by one per completed pass-pair (a forward pass and,
\* when reverses, one reverse pass); Completed is reached after exactly N + 1
\* pass-pairs, with the subscription dropped, and is never left.
C7_RepeatAccounting ==
    /\ []C7_Accounting
    /\ [][(repeatCount >= 0 /\ PlaybackState = "Completed")
             => PlaybackState' = "Completed"]_vars

C7_Witness ==
    /\ repeatCount = 1
    /\ reverses
    /\ PlaybackState = "Completed"
    /\ passPairs = 2
    /\ reversals = 2

\* C8: with a negative repeatCount every completion of a pass-pair is followed
\* at once by an automatic Play(), so the controller is never left in
\* Completed: after a pulse in which no method was called it is Playing with
\* a live subscription or Delayed with a pending wait.
C8_InfiniteNeverRests ==
    /\ [](repeatCount < 0 => PlaybackState # "Completed")
    /\ [][(repeatCount < 0 /\ op' = "Heartbeat" /\ passPairs' # passPairs)
             => /\ PlaybackState' \in {"Playing", "Delayed"}
                /\ (connection' = "connected" \/ waiting' # << >>)]_vars

C8_Witness ==
    /\ repeatCount < 0
    /\ passPairs >= 2
    /\ PlaybackState \in {"Playing", "Delayed"}

\* C9: with reverses = true the reverse pass starts only after the forward
\* pass has emitted its samples, its k-th sample feeds the easing function
\* 1 - p where p is the input of the k-th forward sample, and when the reverse
\* pass is over its last sample was taken at input 0 and equals the initial
\* snapshot.
C9_ReverseSymmetry ==
    /\ \A i \in 1 .. Len(samples) :
          samples[i].x = IF samples[i].rev THEN precision - samples[i].k
                         ELSE samples[i].k
    /\ (reversing /\ samples # << >>) => \E i \in 1 .. Len(samples) :
          ~samples[i].rev /\ samples[i].x = precision
    /\ (reverses /\ reversing /\ progress > precision)
          => (Last(samples).x = 0 /\ Last(samples).v = initial)

C10_DelayedUntilElapsed ==
    /\ (PlaybackState = "Delayed") = (Len(waiting) = 1 /\ waiting[1] < delay)
    /\ PlaybackState # "Delayed" => waiting = << >>
    /\ (op # "new" /\ steady /\ passPairs = 0) =>
          /\ ticks < delay => (PlaybackState = "Delayed" /\ samples = << >>)
          /\ ticks >= delay => PlaybackState = "Playing"

\* C10: Play() from Begin sets Delayed when delay > 0 and Playing when
\* delay = 0; no sample is emitted while Delayed; the state is Delayed exactly
\* while the wait has not yet lasted `delay`, and with 0.1 s ticks that is for
\* the first delay / 0.1 ticks, Playing thereafter.
C10_DelayThenPlaying ==
    /\ []C10_DelayedUntilElapsed
    /\ [][(op' = "Play" /\ PlaybackState = "Begin")
             => PlaybackState' = IF delay > 0 THEN "Delayed" ELSE "Playing"]_vars
    /\ [][PlaybackState = "Delayed" => samples' = samples]_vars

C10_Witness ==
    /\ delay = 5
    /\ steady
    /\ ticks = 6
    /\ tweenTime = 1
    /\ PlaybackState = "Playing"
    /\ Len(samples) = 1

\* C11: Pause() called in Begin, Cancelled, Completed or Delayed changes no
\* field, connection or pending wait; a controller that is Delayed, paused or
\* not, keeps its wait pending and leaves Delayed only for Playing, at the
\* pulse at which the delay has elapsed.
C11_PauseIsNoOp ==
    /\ [][(op' = "Pause"
            /\ PlaybackState \in {"Begin", "Cancelled", "Completed", "Delayed"})
             => UNCHANGED <<fields, host, samples, passPairs, reversals>>]_vars
    /\ [](PlaybackState = "Delayed" => (Len(waiting) = 1 /\ waiting[1] < delay))
    /\ [][(PlaybackState = "Delayed" /\ PlaybackState' # "Delayed")
             => (PlaybackState' = "Playing" /\ ticks' = ticks + 1
                 /\ connection' = "connected")]_vars

C11_Witness ==
    /\ op = "Pause"
    /\ PlaybackState = "Delayed"
    /\ Len(waiting) = 1
    /\ waiting[1] > 0

\* C13: once Destroy() has been called the controller stays inactive, every
\* Play() changes nothing, and no pulse emits a sample or changes progress,
\* timeElapsed, reversing or repeatsRemaining.
C13_DestroyedIsInert ==
    [][~active =>
          /\ ~active'
          /\ op' = "Play" => UNCHANGED <<fields, host, samples, passPairs, reversals>>
          /\ ticks' # ticks => UNCHANGED <<samples, progress, timeElapsed,
                                           reversing, repeatsRemaining>>]_vars

C13_Witness ==
    /\ ~active
    /\ op = "Heartbeat"
    /\ connection = "connected"
    /\ PlaybackState = "Playing"
    /\ timeElapsed > 0

\* C14: Delayed is entered only from Begin; Play() on a Paused controller goes
\* straight to Playing, and so does the automatic replay after a completed
\* pass-pair with repeats remaining.
C14_DelayOnlyFromBegin ==
    [][/\ (PlaybackState' = "Delayed" /\ PlaybackState # "Delayed")
             => PlaybackState = "Begin"
       /\ (op' = "Play" /\ PlaybackState = "Paused" /\ active)
             => PlaybackState' = "Playing"
       /\ (passPairs' # passPairs /\ repeatsRemaining' # 0)
             => PlaybackState' = "Playing"]_vars

\* C16: in every reachable state 0 <= progress <= precision, and every value
\* handed to the easing function lies in [0, 1].
C16_ProgressInRange ==
    /\ progress \in 0 .. precision
    /\ \A i \in 1 .. Len(samples) : samples[i].x \in 0 .. precision

\* C17: for a finite repeatCount, repeatsRemaining is never negative.
C17_RepeatsNeverNegative ==
    repeatCount >= 0 => repeatsRemaining >= 0

\* C18: whenever PlaybackState is Playing and the controller is active, a clock
\* subscription is connected.
C18_PlayingIsDriven ==
    (PlaybackState = "Playing" /\ active) => connection = "connected"

C15_NoSampleAfterInterruption ==
    /\ lateSamples = 0
    /\ \A i \in 1 .. Len(samples) : samples[i].st = "Playing" /\ samples[i].act

C15_Witness ==
    /\ op = "DestroyInTick"
    /\ ~active
    /\ timeElapsed >= tweenTime
    /\ samples # << >>

\* C19: after Cancel(), the first sample emitted afterwards belongs to a
\* forward pass and has progress index 0.
C19_ForwardAfterCancel ==
    [][(afterCancel /\ samples' # samples)
          => (samples'[Len(samples) + 1].k = 0
              /\ ~samples'[Len(samples) + 1].rev)]_vars

\* C20: BezierTween never has more than one of the clock subscriptions it
\* created connected at the same time.
C20_SingleSubscription ==
    (IF connection = "connected" THEN 1 ELSE 0) + leaked <= 1
====
